---- MODULE Spec2Model ----
(***************************************************************************)
(* State-machine model of programs/sim/sim.py: the labour/capital          *)
(* population simulation (initialize_population, the chunked monthly       *)
(* kernel inside simulate, and the per-month aggregates).                  *)
(*                                                                         *)
(* Abstractions.                                                           *)
(*  - capital (float32) is an integer number of capital units.             *)
(*  - The bit generator behind np.random.default_rng is a stream of raw    *)
(*    values in Raw.  rng.random() maps a raw value r to r / Grid, so a    *)
(*    probability is the numerator of a fraction over Grid and             *)
(*    "draw < prob" is "r < numerator".  rng.lognormal and rng.normal map  *)
(*    one raw value each to a variate (Lognormal, Normal below).           *)
(*  - A generator whose seed is known is a small linear congruential       *)
(*    generator; a generator whose seed is left open (rng.known = FALSE)   *)
(*    may produce any stream, so every sequence of draws is explored.      *)
(*  - np.empty returns whatever the allocator left: any value of Garbage.  *)
(***************************************************************************)
EXTENDS Integers, Sequences, FiniteSets, TLC

VARIABLES
    pc,            \* position in simulate: "call", "month", "done", or
                   \* "error" when an exception left it
    N,             \* population size (argument of simulate)
    p,             \* the SimParams record (read only)
    capital,       \* pop["capital"]       : [0..N-1 -> Int]
    tiers,         \* pop["tiers"]         : [0..N-1 -> 0..2]
    employed,      \* pop["employed"]      : [0..N-1 -> 0..1]
    unemp_months,  \* pop["unemp_months"]  : [0..N-1 -> 0..255]
    state,         \* pop["state"]         : [0..N-1 -> 0..3]
    sample_idx,    \* pop["sample_idx"]    : sequence of indices
    rng,           \* the evolution generator default_rng(seed + 1)
    m,             \* month loop variable
    start,         \* chunk loop variable
    active_ct, exited_ct, unemp_ct, emp_ct,   \* the count series
    mean, p10, p50, p90, hist,                \* the sample series
    final_slot_ratio,                         \* reported on return
    kernel,        \* the chunk iteration just executed: the arrays it started
                   \* from (pop) and its views and local masks at its end (k)
    \* bin/shared_dictionary.py
    disk,          \* the files: path -> content
    cache,         \* the canonical cache dict: normalized word -> entry
    requests,      \* the words requested from Wiktionary, in order
    call,          \* the last call: its arguments and what it returned or printed
    now,           \* the clock behind datetime.utcnow()
    dictionaries,  \* main: the overlays loaded by load_shared_dictionaries
    last_user_file,\* main: the file name loaded at the start of the session
    shared,        \* main: the additional meanings the last lookup printed
    session        \* history: the (word, text) pairs the :add commands confirmed

vars == <<pc, N, p, capital, tiers, employed, unemp_months, state, sample_idx,
          rng, m, start, active_ct, exited_ct, unemp_ct, emp_ct,
          mean, p10, p50, p90, hist, final_slot_ratio, kernel,
          disk, cache, requests, call, now,
          dictionaries, last_user_file, shared, session>>
replVars == <<dictionaries, last_user_file, shared, session>>
dictVars == <<disk, cache, requests, call, now, replVars>>
simVars == <<pc, N, p, capital, tiers, employed, unemp_months, state, sample_idx,
             rng, m, start, active_ct, exited_ct, unemp_ct, emp_ct,
             mean, p10, p50, p90, hist, final_slot_ratio, kernel>>

(***************************************************************************)
(* Bounds of the model.                                                    *)
(***************************************************************************)
MaxN == 2
MaxMonths == 2
MaxChunk == 2
MaxSeed == 7
MaxWork == 4
MaxSample == 3
MaxCalls == 3
MaxAgents == 3
MaxSlots == 4
LongMonths == 257

(***************************************************************************)
(* State encoding and integer widths.                                      *)
(***************************************************************************)
STABLE == 0
PRECARIOUS == 1
INSOLVENT == 2
EXITED == 3
UINT8 == 256

Raw == {0, 1}
Grid == Cardinality(Raw)
Garbage == {0, 9}

Min(a, b) == IF a <= b THEN a ELSE b
Max(a, b) == IF a >= b THEN a ELSE b

Abs(a) == IF a < 0 THEN 0 - a ELSE a

RECURSIVE GCD(_, _)
GCD(a, b) == IF b = 0 THEN a ELSE GCD(b, a % b)

RECURSIVE Pow(_, _)
Pow(b, e) == IF e = 0 THEN 1
             ELSE IF e % 2 = 0 THEN Pow(b * b, e \div 2)
             ELSE b * Pow(b * b, e \div 2)

(***************************************************************************)
(* Parameter sets.  Probabilities and the job-slot factors are numerators  *)
(* over Grid; capital amounts are in capital units.                        *)
(***************************************************************************)
BaseParams ==
    [ seed |-> 0,
      months |-> 1,
      capital_logn_mu |-> 1,
      capital_logn_sigma |-> 2,
      capital_cap_max |-> 3,
      tier_probs |-> <<1, 1, 0>>,
      job_slot_ratio0 |-> 1,
      job_slot_decline |-> 0,
      hire_friction |-> Grid,
      rev_employed_mu |-> <<0, 1, 1>>,
      rev_unemployed_mu |-> <<-1, -2, -1>>,
      rev_sigma |-> <<0, 0, 1>>,
      shock_prob_monthly |-> 1,
      shock_cost_mu |-> 1,
      shock_cost_sigma |-> 1,
      separation_prob_monthly |-> 1,
      separation_income_hit |-> 1,
      precarious_thresh |-> 2,
      insolvent_thresh |-> 0,
      unemp_exit_boost_after |-> 2,
      exit_prob_monthly_if_insolvent_unemployed |-> Grid,
      exit_prob_monthly_if_insolvent_only |-> 1,
      chunk_size |-> 1,
      sample_size |-> 1,
      hist_bins |-> <<0, 1, 3>> ]

\* every random event can happen: shocks, separations, hiring, exits
Turbulent == BaseParams

\* hiring and exits only
Labour == [BaseParams EXCEPT !.shock_prob_monthly = 0,
                             !.separation_prob_monthly = 0]

\* shock, separation and both exit probabilities 0
Quiet(q) == [q EXCEPT !.shock_prob_monthly = 0,
                      !.separation_prob_monthly = 0,
                      !.exit_prob_monthly_if_insolvent_unemployed = 0,
                      !.exit_prob_monthly_if_insolvent_only = 0,
                      !.rev_sigma = <<0, 1, 1>>]

FullEmployment == [Quiet(BaseParams) EXCEPT !.job_slot_ratio0 = Grid]
NoEmployment == [Quiet(BaseParams) EXCEPT !.job_slot_ratio0 = 0]

\* everyone is employed and the insolvency threshold is a positive capital
Recovery == [FullEmployment EXCEPT !.insolvent_thresh = 1]

Scenarios == {Turbulent, Labour, FullEmployment, NoEmployment, Recovery}

\* no job is ever found, and exit risk starts only at 255 months unemployed
LongUnemployment ==
    [NoEmployment EXCEPT !.rev_sigma = <<0, 0, 0>>,
                         !.unemp_exit_boost_after = 255,
                         !.exit_prob_monthly_if_insolvent_unemployed = 1]

(***************************************************************************)
(* The random source.                                                      *)
(***************************************************************************)
LcgM == 2 ^ 4
LcgStep(x) == (5 * x + 3) % LcgM
LcgOut(x) == x \div (LcgM \div Grid)

RECURSIVE LcgSkip(_, _)
LcgSkip(x, n) == IF n = 0 THEN x ELSE LcgSkip(LcgStep(x), n - 1)

\* np.random.default_rng(seed)
default_rng(seed) == [known |-> TRUE, x |-> seed % LcgM]
open_rng == [known |-> FALSE, x |-> 0]

\* the next len raw values of generator g
LcgTape(x, len) == [j \in 1..len |-> LcgOut(LcgSkip(x, j))]
RandomRaw(g, len) == IF g.known THEN {LcgTape(g.x, len)} ELSE [1..len -> Raw]
Advance(g, used) == IF g.known THEN [g EXCEPT !.x = LcgSkip(g.x, used)] ELSE g

\* variates: one raw value each
Lognormal(mu, sigma, r) == mu + sigma * r
Normal(mu, sigma, r) == mu + sigma * (2 * r - 1)
\* rng.choice(3, p=probs): the index whose cumulative probability exceeds r
Choice3(probs, r) == IF r < probs[1] THEN 0
                     ELSE IF r < probs[1] + probs[2] THEN 1 ELSE 2

(***************************************************************************)
(* The monthly kernel on one chunk (simulate, the body of the chunk loop). *)
(* A chunk record k holds the views cap, tr, emp, um, stt of the slice sl, *)
(* the kernel's local masks and the generator rng.  A step that draws      *)
(* takes the raw values of its draw as an argument; Draw feeds it every    *)
(* vector the generator can yield and advances the generator.  hired keeps *)
(* emp as the employment assignment left it, before the separations.       *)
(***************************************************************************)
Count(mask) == Cardinality({j \in DOMAIN mask : mask[j]})
AnyOf(mask) == \E j \in DOMAIN mask : mask[j]
Rank(mask, i) == Cardinality({j \in DOMAIN mask : mask[j] /\ j <= i})

\* a draw of size Count(mask): the raw value each selected element receives
Spread(k, mask, raw) == [i \in k.sl |-> IF mask[i] THEN raw[Rank(mask, i)] ELSE 0]
Whole(k) == [i \in k.sl |-> TRUE]
Size(k) == Cardinality(k.sl)

\* the records after a step that draws Need(k) raw values
Draw(K, Need(_), Step(_, _)) ==
    UNION { { [Step(k, raw) EXCEPT !.rng = Advance(k.rng, Need(k))] :
                 raw \in RandomRaw(k.rng, Need(k)) } : k \in K }

\* uint8 arithmetic of um + 1, then np.minimum(., 255).astype(np.uint8)
AddU8(a, b) == (a + b) % UINT8
IncrementUnemp(um) == Min(AddU8(um, 1), 255) % UINT8

\* effective job slot ratio of month mo: a fraction num / den, with the
\* monthly factor 1 - job_slot_decline in lowest terms
Decay(q) == LET d == GCD(Abs(Grid - q.job_slot_decline), Grid)
            IN  [num |-> (Grid - q.job_slot_decline) \div d, den |-> Grid \div d]
\* (1 - decline) ** mo; for a negative mo the reciprocal of the power
RawSlotRatio(q, mo) ==
    LET up == IF mo >= 0 THEN Decay(q).num ELSE Decay(q).den
        dn == IF mo >= 0 THEN Decay(q).den ELSE Decay(q).num
    IN  [num |-> q.job_slot_ratio0 * Pow(up, Abs(mo)) * q.hire_friction,
         den |-> Grid * Pow(dn, Abs(mo)) * Grid]
Clip01(f) == [f EXCEPT !.num = Max(0, Min(f.num, f.den))]
SlotRatio(q, mo) == Clip01(RawSlotRatio(q, mo))
\* rng.random() < ratio
Below(r, f) == r * f.den < Grid * f.num

ChunkView(pop, lo, hi, gen, g) ==
    LET sl == lo..(hi - 1) IN
    [ sl |-> sl,
      cap |-> [i \in sl |-> pop.capital[i]],
      tr  |-> [i \in sl |-> pop.tiers[i]],
      emp |-> [i \in sl |-> pop.employed[i]],
      um  |-> [i \in sl |-> pop.unemp_months[i]],
      stt |-> [i \in sl |-> pop.state[i]],
      active |-> [i \in sl |-> FALSE],
      hired |-> [i \in sl |-> 0],
      shocked |-> [i \in sl |-> FALSE],
      costs |-> [i \in sl |-> 0],
      separated |-> [i \in sl |-> FALSE],
      rev |-> [i \in sl |-> g],
      risk |-> [i \in sl |-> 0],
      exiting |-> [i \in sl |-> FALSE],
      rng |-> gen ]

\* mutant: the mask does not exclude EXITED agents
ActiveMask_Everyone(k) == [k EXCEPT !.active = [i \in k.sl |-> TRUE]]

ActiveMask(k) == [k EXCEPT !.active = [i \in k.sl |-> k.stt[i] # EXITED]]

\* mutant: draw <= slot_ratio
EmploymentAssignment_Inclusive(k, slot_ratio, raw) ==
    LET draw == Spread(k, Whole(k), raw) IN
    LET emp == [i \in k.sl |->
                   IF k.active[i] /\ draw[i] * slot_ratio.den <= Grid * slot_ratio.num
                   THEN 1 ELSE 0] IN
    [k EXCEPT !.emp = emp, !.hired = emp]

EmploymentAssignment(k, slot_ratio, raw) ==
    LET draw == Spread(k, Whole(k), raw) IN
    LET emp == [i \in k.sl |->
                   IF k.active[i] /\ Below(draw[i], slot_ratio) THEN 1 ELSE 0] IN
    [k EXCEPT !.emp = emp, !.hired = emp]

ShockDraw(k, q, raw) ==
    LET shock_draw == Spread(k, Whole(k), raw) IN
    [k EXCEPT !.shocked = [i \in k.sl |->
                              k.active[i] /\ shock_draw[i] < q.shock_prob_monthly]]

\* "if shocked.any()": one lognormal cost per shocked agent
ShockCostCount(k) == IF AnyOf(k.shocked) THEN Count(k.shocked) ELSE 0
ShockCosts(k, q, raw) ==
    LET r == Spread(k, k.shocked, raw)
        costs == [i \in k.sl |->
                     IF k.shocked[i]
                     THEN Lognormal(q.shock_cost_mu, q.shock_cost_sigma, r[i])
                     ELSE 0]
    IN  IF AnyOf(k.shocked)
        THEN [k EXCEPT !.costs = costs,
                       !.cap = [i \in k.sl |-> k.cap[i] - costs[i]]]
        ELSE k

\* mutant: a separated agent keeps the outcome of the employment draw
Separations_KeepsDraw(k, q, raw) ==
    LET sep_draw == Spread(k, Whole(k), raw)
        separated == [i \in k.sl |->
                         k.active[i] /\ sep_draw[i] < q.separation_prob_monthly]
    IN  [k EXCEPT !.separated = separated,
                  !.cap = [i \in k.sl |-> IF separated[i]
                                          THEN k.cap[i] - q.separation_income_hit
                                          ELSE k.cap[i]]]

Separations(k, q, raw) ==
    LET sep_draw == Spread(k, Whole(k), raw)
        separated == [i \in k.sl |->
                         k.active[i] /\ sep_draw[i] < q.separation_prob_monthly]
    IN  [k EXCEPT !.separated = separated,
                  !.cap = [i \in k.sl |-> IF separated[i]
                                          THEN k.cap[i] - q.separation_income_hit
                                          ELSE k.cap[i]],
                  !.emp = [i \in k.sl |-> IF separated[i] THEN 0 ELSE k.emp[i]]]

\* mutant: the unemployed mask forgets "active &"
UnemploymentDuration_NoMask(k) ==
    [k EXCEPT !.um = [i \in k.sl |->
                         IF k.emp[i] = 0 THEN IncrementUnemp(k.um[i])
                         ELSE IF k.active[i] /\ k.emp[i] = 1 THEN 0
                         ELSE k.um[i]]]

UnemploymentDuration(k) ==
    [k EXCEPT !.um = [i \in k.sl |->
                         IF k.active[i] /\ k.emp[i] = 0 THEN IncrementUnemp(k.um[i])
                         ELSE IF k.active[i] /\ k.emp[i] = 1 THEN 0
                         ELSE k.um[i]]]

\* one pass of "for t in (0, 1, 2)": the draws of the active agents of tier t
TierMask(k, t) == [i \in k.sl |-> k.active[i] /\ k.tr[i] = t]
TierCount(k, t) == IF AnyOf(TierMask(k, t)) THEN Count(TierMask(k, t)) ELSE 0
CashflowTier(k, q, t, raw) ==
    LET mask == TierMask(k, t)
        r == Spread(k, mask, raw)
        mu(i) == IF k.emp[i] = 1 THEN q.rev_employed_mu[t + 1]
                                 ELSE q.rev_unemployed_mu[t + 1]
    IN  IF AnyOf(mask)
        THEN [k EXCEPT !.rev = [i \in k.sl |->
                                   IF mask[i]
                                   THEN Normal(mu(i), q.rev_sigma[t + 1], r[i])
                                   ELSE k.rev[i]]]
        ELSE k

\* mutant: cap += rev, the active mask forgotten
AddRevenue_Unmasked(k) == [k EXCEPT !.cap = [i \in k.sl |-> k.cap[i] + k.rev[i]]]

\* cap[active] += rev[active]
AddRevenue(k) ==
    [k EXCEPT !.cap = [i \in k.sl |-> IF k.active[i] THEN k.cap[i] + k.rev[i]
                                                     ELSE k.cap[i]]]

\* mutant: the new classification is stored through the view tr, not stt
StateTransitions_WrongView(k, q) ==
    LET newly_insolvent == [i \in k.sl |-> k.active[i] /\ k.cap[i] <= q.insolvent_thresh]
        newly_precarious == [i \in k.sl |-> /\ k.active[i]
                                            /\ k.cap[i] < q.precarious_thresh
                                            /\ ~newly_insolvent[i]]
        newly_stable == [i \in k.sl |-> k.active[i] /\ k.cap[i] >= q.precarious_thresh]
        s1 == [i \in k.sl |-> IF newly_insolvent[i] THEN INSOLVENT ELSE k.tr[i]]
        s2 == [i \in k.sl |-> IF newly_precarious[i] THEN PRECARIOUS ELSE s1[i]]
        s3 == [i \in k.sl |-> IF newly_stable[i] THEN STABLE ELSE s2[i]]
    IN  [k EXCEPT !.tr = s3]

\* mutant: an agent whose capital recovered is not reclassified as stable
StateTransitions_NoRecovery(k, q) ==
    LET newly_insolvent == [i \in k.sl |-> k.active[i] /\ k.cap[i] <= q.insolvent_thresh]
        newly_precarious == [i \in k.sl |-> /\ k.active[i]
                                            /\ k.cap[i] < q.precarious_thresh
                                            /\ ~newly_insolvent[i]]
        s1 == [i \in k.sl |-> IF newly_insolvent[i] THEN INSOLVENT ELSE k.stt[i]]
        s2 == [i \in k.sl |-> IF newly_precarious[i] THEN PRECARIOUS ELSE s1[i]]
    IN  [k EXCEPT !.stt = s2]

\* mutant: the insolvent test is strict
StateTransitions_Strict(k, q) ==
    LET newly_insolvent == [i \in k.sl |-> k.active[i] /\ k.cap[i] < q.insolvent_thresh]
        newly_precarious == [i \in k.sl |-> /\ k.active[i]
                                            /\ k.cap[i] < q.precarious_thresh
                                            /\ ~newly_insolvent[i]]
        newly_stable == [i \in k.sl |-> k.active[i] /\ k.cap[i] >= q.precarious_thresh]
        s1 == [i \in k.sl |-> IF newly_insolvent[i] THEN INSOLVENT ELSE k.stt[i]]
        s2 == [i \in k.sl |-> IF newly_precarious[i] THEN PRECARIOUS ELSE s1[i]]
        s3 == [i \in k.sl |-> IF newly_stable[i] THEN STABLE ELSE s2[i]]
    IN  [k EXCEPT !.stt = s3]

StateTransitions(k, q) ==
    LET newly_insolvent == [i \in k.sl |-> k.active[i] /\ k.cap[i] <= q.insolvent_thresh]
        newly_precarious == [i \in k.sl |-> /\ k.active[i]
                                            /\ k.cap[i] < q.precarious_thresh
                                            /\ ~newly_insolvent[i]]
        newly_stable == [i \in k.sl |-> k.active[i] /\ k.cap[i] >= q.precarious_thresh]
        s1 == [i \in k.sl |-> IF newly_insolvent[i] THEN INSOLVENT ELSE k.stt[i]]
        s2 == [i \in k.sl |-> IF newly_precarious[i] THEN PRECARIOUS ELSE s1[i]]
        s3 == [i \in k.sl |-> IF newly_stable[i] THEN STABLE ELSE s2[i]]
    IN  [k EXCEPT !.stt = s3]

\* mutant: every active agent is exposed to the exit draw
Insolvent_AnyActive(k) == k.active

\* "if insol.any()": the exit draw is made only then
Insolvent(k) == [i \in k.sl |-> k.stt[i] = INSOLVENT /\ k.active[i]]
ExitDrawCount(k) == IF AnyOf(Insolvent(k)) THEN Size(k) ELSE 0
\* mutant: the escalated risk needs more than unemp_exit_boost_after months
ExitRisk_Later(k, q) ==
    LET insol == Insolvent(k)
        deep_unemp == [i \in k.sl |-> /\ insol[i]
                                      /\ k.um[i] > q.unemp_exit_boost_after
                                      /\ k.emp[i] = 0]
        shallow == [i \in k.sl |-> insol[i] /\ ~deep_unemp[i]]
    IN  [i \in k.sl |->
            IF shallow[i] THEN q.exit_prob_monthly_if_insolvent_only
            ELSE IF deep_unemp[i] THEN q.exit_prob_monthly_if_insolvent_unemployed
            ELSE 0]

ExitRisk(k, q) ==
    LET insol == Insolvent(k)
        deep_unemp == [i \in k.sl |-> /\ insol[i]
                                      /\ k.um[i] >= q.unemp_exit_boost_after
                                      /\ k.emp[i] = 0]
        shallow == [i \in k.sl |-> insol[i] /\ ~deep_unemp[i]]
    IN  [i \in k.sl |->
            IF shallow[i] THEN q.exit_prob_monthly_if_insolvent_only
            ELSE IF deep_unemp[i] THEN q.exit_prob_monthly_if_insolvent_unemployed
            ELSE 0]
ExitRule(k, q, raw) ==
    LET insol == Insolvent(k)
        risk == ExitRisk(k, q)
        exit_draw == Spread(k, Whole(k), raw)
        exiting == [i \in k.sl |-> insol[i] /\ exit_draw[i] < risk[i]]
    IN  IF AnyOf(insol)
        THEN [k EXCEPT !.risk = risk,
                       !.exiting = exiting,
                       !.stt = [i \in k.sl |-> IF exiting[i] THEN EXITED ELSE k.stt[i]],
                       !.emp = [i \in k.sl |-> IF exiting[i] THEN 0 ELSE k.emp[i]],
                       !.um = [i \in k.sl |-> IF exiting[i] THEN IncrementUnemp(k.um[i])
                                                            ELSE k.um[i]]]
        ELSE k

\* the chunk records the kernel can end in, from the chunk records K
Kernel(K, q, mo) ==
    LET K1 == {ActiveMask(k) : k \in K}
        K2 == Draw(K1, Size, LAMBDA k, raw : EmploymentAssignment(k, SlotRatio(q, mo), raw))
        K3 == Draw(K2, Size, LAMBDA k, raw : ShockDraw(k, q, raw))
        K4 == Draw(K3, ShockCostCount, LAMBDA k, raw : ShockCosts(k, q, raw))
        K5 == Draw(K4, Size, LAMBDA k, raw : Separations(k, q, raw))
        K6 == {UnemploymentDuration(k) : k \in K5}
        K7 == Draw(K6, LAMBDA k : TierCount(k, 0), LAMBDA k, raw : CashflowTier(k, q, 0, raw))
        K8 == Draw(K7, LAMBDA k : TierCount(k, 1), LAMBDA k, raw : CashflowTier(k, q, 1, raw))
        K9 == Draw(K8, LAMBDA k : TierCount(k, 2), LAMBDA k, raw : CashflowTier(k, q, 2, raw))
        K10 == {StateTransitions(AddRevenue(k), q) : k \in K9}
    IN  Draw(K10, ExitDrawCount, LAMBDA k, raw : ExitRule(k, q, raw))

\* write back: the views alias the arrays, so every write of the kernel lands
\* mutant: the employment flags are cleared on the whole array, not the view
WriteBack_ClearsFlags(pop, k) ==
    LET put(arr, view) == [i \in DOMAIN arr |-> IF i \in k.sl THEN view[i] ELSE arr[i]]
    IN  [pop EXCEPT !.capital = put(pop.capital, k.cap),
                    !.tiers = put(pop.tiers, k.tr),
                    !.employed = [i \in DOMAIN pop.employed |->
                                     IF i \in k.sl THEN k.emp[i] ELSE 0],
                    !.unemp_months = put(pop.unemp_months, k.um),
                    !.state = put(pop.state, k.stt)]

WriteBack(pop, k) ==
    LET put(arr, view) == [i \in DOMAIN arr |-> IF i \in k.sl THEN view[i] ELSE arr[i]]
    IN  [pop EXCEPT !.capital = put(pop.capital, k.cap),
                    !.tiers = put(pop.tiers, k.tr),
                    !.employed = put(pop.employed, k.emp),
                    !.unemp_months = put(pop.unemp_months, k.um),
                    !.state = put(pop.state, k.stt)]

ChunkEnd(n, q, lo) == Min(lo + q.chunk_size, n)

\* one iteration of the chunk loop on pop: the chunk records it can end in;
\* rev = np.empty(size) starts as whatever the allocator left
ProcessedChunk(pop, n, q, mo, lo, gen, garbage) ==
    Kernel({ChunkView(pop, lo, ChunkEnd(n, q, lo), gen, g) : g \in garbage}, q, mo)

(***************************************************************************)
(* initialize_population: capital, tiers, flags and the derived state.     *)
(* The first n raw values of the tape give the capitals, the next n the    *)
(* tiers, the last min(sample_size, n) the sample.                         *)
(***************************************************************************)
\* rng.choice(3, p=tier_probs) accepts three probabilities that sum to 1
ValidDistribution(probs) ==
    /\ Len(probs) = 3
    /\ \A j \in 1..3 : probs[j] >= 0
    /\ probs[1] + probs[2] + probs[3] = Grid

\* mutant: the indices already picked stay in the pool
Remaining_WithReplacement(n, picked) == 0..(n - 1)

\* rng.choice(n, size, replace=False): size distinct indices, each picked
\* from the indices not picked yet (in ascending order) by one raw value
Remaining(n, picked) == {i \in 0..(n - 1) : \A j \in DOMAIN picked : picked[j] # i}
NthRemaining(n, picked, r) ==
    LET pool == Remaining(n, picked)
        pos == r % Cardinality(pool)
    IN  CHOOSE i \in pool : Cardinality({j \in pool : j < i}) = pos
RECURSIVE ChoiceNoReplace(_, _, _, _)
ChoiceNoReplace(n, size, raw, picked) ==
    IF Len(picked) >= size THEN picked
    ELSE ChoiceNoReplace(n, size, raw,
                         Append(picked, NthRemaining(n, picked, raw[Len(picked) + 1])))
SampleSize(n, q) == Min(q.sample_size, n)

InitialState(cap, q) ==
    LET s1 == STABLE
        s2 == IF cap < q.precarious_thresh THEN PRECARIOUS ELSE s1
    IN  IF cap <= q.insolvent_thresh THEN INSOLVENT ELSE s2

InitialTier(q, r) == Choice3(q.tier_probs, r)

initialize_population(n, q, tape) ==
    LET cap == [i \in 0..(n - 1) |->
                   Min(Lognormal(q.capital_logn_mu, q.capital_logn_sigma, tape[i + 1]),
                       q.capital_cap_max)]
    IN  [ capital |-> cap,
          tiers |-> [i \in 0..(n - 1) |-> InitialTier(q, tape[n + i + 1])],
          employed |-> [i \in 0..(n - 1) |-> 0],
          unemp_months |-> [i \in 0..(n - 1) |-> 0],
          state |-> [i \in 0..(n - 1) |-> InitialState(cap[i], q)],
          sample_idx |-> ChoiceNoReplace(n, SampleSize(n, q),
                                         [j \in 1..SampleSize(n, q) |-> tape[2 * n + j]],
                                         <<>>) ]

InitTapeLen(n, q) == 2 * n + SampleSize(n, q)

(***************************************************************************)
(* The aggregates of one month over the full arrays.                       *)
(***************************************************************************)
CountExited(pop) == Cardinality({i \in DOMAIN pop.state : pop.state[i] = EXITED})
CountActive(pop) == Cardinality({i \in DOMAIN pop.state : pop.state[i] # EXITED})
CountEmployed(pop) ==
    Cardinality({i \in DOMAIN pop.state : pop.state[i] # EXITED /\ pop.employed[i] = 1})
\* mutant: unemployed counted over all agents, exited or not
CountUnemployed_All(pop) ==
    Cardinality({i \in DOMAIN pop.state : pop.employed[i] = 0})

CountUnemployed(pop) ==
    Cardinality({i \in DOMAIN pop.state : pop.state[i] # EXITED /\ pop.employed[i] = 0})

(***************************************************************************)
(* The sample statistics of one month.  A mean or percentile is a fraction *)
(* num / den; NaN is what numpy gives for an empty sample.                 *)
(***************************************************************************)
NaN == "nan"

\* samp = capital[sample_idx]
Sample(pop) == [j \in 1..Len(pop.sample_idx) |-> pop.capital[pop.sample_idx[j]]]

RECURSIVE SumSeq(_)
SumSeq(sq) == IF Len(sq) = 0 THEN 0 ELSE Head(sq) + SumSeq(Tail(sq))

\* samp.mean()
SampleMean(samp) == IF Len(samp) = 0 THEN NaN
                    ELSE [num |-> SumSeq(samp), den |-> Len(samp)]

\* the j-th smallest value of samp
OrderStat(samp, j) ==
    CHOOSE v \in {samp[i] : i \in 1..Len(samp)} :
        /\ Cardinality({i \in 1..Len(samp) : samp[i] < v}) < j
        /\ j <= Cardinality({i \in 1..Len(samp) : samp[i] <= v})

\* np.percentile(samp, pct): linear interpolation between the order statistics
\* around position pct / 100 * (len - 1)
Percentile(samp, pct) ==
    IF Len(samp) = 0 THEN NaN
    ELSE LET t == pct * (Len(samp) - 1)
             lo == OrderStat(samp, t \div 100 + 1)
             hi == OrderStat(samp, Min(t \div 100 + 2, Len(samp)))
         IN  [num |-> 100 * lo + (t % 100) * (hi - lo), den |-> 100]

\* mutant: a value outside the edges is counted in the nearest end bin
InBin_Clamped(v, bins, b) ==
    \/ bins[b] <= v /\ v < bins[b + 1]
    \/ b = 1 /\ v < bins[1]
    \/ b = Len(bins) - 1 /\ v >= bins[b + 1]

\* np.histogram(samp, bins)[0]: bin b is [bins[b], bins[b+1]), the last bin
\* is closed on the right; a value outside the edges is in no bin
InBin(v, bins, b) ==
    /\ bins[b] <= v
    /\ \/ v < bins[b + 1]
       \/ b = Len(bins) - 1 /\ v = bins[b + 1]
Histogram(samp, bins) ==
    [b \in 1..(Len(bins) - 1) |->
        Cardinality({j \in 1..Len(samp) : InBin(samp[j], bins, b)})]

(***************************************************************************)
(* bin/shared_dictionary.py: the canonical cache and the personal          *)
(* dictionaries.  A word or a text is a sequence of characters.  A file is *)
(* missing, holds JSON data, holds text that does not parse as JSON (its   *)
(* data is in the file but json.load raises), or was cut off by a write    *)
(* that failed.                                                            *)
(***************************************************************************)
CANONICAL_CACHE_FILE == "canonical_cache.json"
LAST_USER_FILE == ".last_dict_user"
UserFiles == {"dict_me.json"}
Paths == UserFiles \cup {CANONICAL_CACHE_FILE, LAST_USER_FILE}

Words == {<<"a">>, <<"A", " ">>, <<"b">>}
Texts == {<<"x">>, <<" ", "y">>}

\* str.lower and str.strip
LowerChar(ch) == IF ch = "A" THEN "a" ELSE ch
Lower(w) == [i \in 1..Len(w) |-> LowerChar(w[i])]
RECURSIVE LStrip(_)
LStrip(w) == IF Len(w) > 0 /\ w[1] = " " THEN LStrip(Tail(w)) ELSE w
RECURSIVE RStrip(_)
RStrip(w) == IF Len(w) > 0 /\ w[Len(w)] = " " THEN RStrip(SubSeq(w, 1, Len(w) - 1)) ELSE w
Strip(w) == RStrip(LStrip(w))

Missing == [kind |-> "missing"]
Json(data) == [kind |-> "json", data |-> data]
Unparsable(data) == [kind |-> "unparsable", data |-> data]
Truncated == [kind |-> "truncated"]

\* what happens to the writes of one call: they succeed, open(path, "w")
\* raises, or json.dump raises after open has emptied the file
WriteOutcomes == {"ok", "open_failed", "dump_failed"}

load_json(content, default) ==
    IF content.kind = "json" THEN content.data ELSE default

\* save_json reports an exception and returns normally
save_json(content, data, io) ==
    CASE io = "ok" -> Json(data)
      [] io = "open_failed" -> content
      [] io = "dump_failed" -> Truncated

\* what load_json and save_json print when they catch an exception
LoadMessages(content) ==
    IF content.kind \in {"unparsable", "truncated"} THEN <<"Failed to load">> ELSE <<>>
SaveMessages(io) == IF io = "ok" THEN <<>> ELSE <<"Error saving">>

\* a dict with key set to value
SetItem(d, key, value) ==
    [x \in DOMAIN d \cup {key} |-> IF x = key THEN value ELSE d[x]]
EmptyDict == [x \in {} |-> 0]
Get(d, key, default) == IF key \in DOMAIN d THEN d[key] ELSE default

\* the responses of the Wiktionary API: definitions, an exception, no English
Responses == {"definitions", "error", "none"}
fetch_from_wiktionary(word, response, time) ==
    [ definitions |->
          CASE response = "definitions" -> <<[text |-> word, part_of_speech |-> "noun"]>>
            [] response = "error" -> <<[text |-> <<"[Lookup error]">>, part_of_speech |-> "None"]>>
            [] response = "none" ->
                 <<[text |-> <<"[No English definitions found]">>, part_of_speech |-> "None"]>>,
      source |-> "wiktionary",
      source_url |-> word,
      fetched |-> time ]

\* mutant: the word is looked up as typed
Normalize_AsTyped(word) == word

\* w = word.lower().strip()
Normalize(word) == Strip(Lower(word))

\* file names: sequences of parts whose concatenation is the path
RECURSIVE Join(_)
Join(parts) == IF parts = <<>> THEN "" ELSE Head(parts) \o Join(Tail(parts))

\* what the user may type at "Dictionary file [...]: "
FileEntries == {<<>>, <<"me">>, <<"dict_", "me", ".json">>, <<"team", "/", "me">>}
DefaultName == <<"dict_", "default", ".json">>
MeName == <<"dict_", "me", ".json">>

\* user_file = input(...).strip() or default, then the prefix and the suffix
NormalizeFileName(entered, default) ==
    LET typed == IF entered = <<>> THEN default ELSE entered
        prefixed == IF typed[1] # "dict_" THEN <<"dict_">> \o typed ELSE typed
    IN  IF prefixed[Len(prefixed)] # ".json" THEN Append(prefixed, ".json") ELSE prefixed

\* the file names of a session, in the order of sorted(); the paths on disk
ReplNames == <<DefaultName, MeName, <<"dict_", "team", "/", "me", ".json">> >>
ReplPaths == {Join(ReplNames[j]) : j \in 1..Len(ReplNames)}
                 \cup {CANONICAL_CACHE_FILE, LAST_USER_FILE}
Parts(path) == ReplNames[CHOOSE j \in 1..Len(ReplNames) : Join(ReplNames[j]) = path]

\* user_file.replace("dict_", "").replace(".json", "")
UserId(user_file) ==
    Join(SelectSeq(Parts(user_file), LAMBDA part : part \notin {"dict_", ".json"}))
DefaultDict(user_file) == [user_id |-> UserId(user_file), entries |-> EmptyDict]

\* data.setdefault("entries", {}).setdefault(key, []).append(entry)
AppendEntry(data, key, entry) ==
    [data EXCEPT !.entries = SetItem(data.entries, key,
                                     Append(Get(data.entries, key, <<>>), entry))]

\* the functions called directly, outside the REPL
ReplUnused ==
    dictionaries = <<>> /\ last_user_file = <<>> /\ shared = <<>> /\ session = {}

DictUnused ==
    /\ disk = <<>> /\ cache = <<>> /\ requests = <<>> /\ call = <<>> /\ now = 0
    /\ ReplUnused

SimUnused ==
    /\ pc = "none" /\ N = 0 /\ p = <<>>
    /\ capital = <<>> /\ tiers = <<>> /\ employed = <<>>
    /\ unemp_months = <<>> /\ state = <<>> /\ sample_idx = <<>>
    /\ rng = <<>> /\ m = 0 /\ start = 0
    /\ active_ct = <<>> /\ exited_ct = <<>> /\ unemp_ct = <<>> /\ emp_ct = <<>>
    /\ mean = <<>> /\ p10 = <<>> /\ p50 = <<>> /\ p90 = <<>> /\ hist = <<>>
    /\ final_slot_ratio = <<>> /\ kernel = <<>>

\* a dictionary written by an earlier session, and a cache with one word
OldEntry == [text |-> <<"o">>, tags |-> <<>>, created |-> 0]
OldDict == [user_id |-> "me", entries |-> SetItem(EmptyDict, <<"a">>, <<OldEntry>>)]
OldCache == SetItem(EmptyDict, <<"b">>, fetch_from_wiktionary(<<"b">>, "none", 0))

\* the start of a session: cache = load_canonical_cache()
InitDict ==
    /\ SimUnused
    /\ \E user \in {Missing, Json(OldDict), Unparsable(OldDict), Truncated},
          cached \in {Missing, Json(OldCache)} :
          /\ disk = [path \in Paths |->
                        IF path \in UserFiles THEN user
                        ELSE IF path = CANONICAL_CACHE_FILE THEN cached
                        ELSE Missing]
          /\ cache = load_json(cached, EmptyDict)
    /\ requests = <<>>
    /\ call = [op |-> "start"]
    /\ now = 1
    /\ ReplUnused

lookup_canonical(word) ==
    /\ now <= MaxCalls
    /\ \E w \in {Normalize(word)} :
          IF w \in DOMAIN cache
          THEN /\ call' = [op |-> "lookup", word |-> word, returned |-> cache[w],
                            printed |-> <<>>]
               /\ UNCHANGED <<disk, cache, requests>>
          ELSE \E response \in Responses, io \in WriteOutcomes :
               \E entry \in {fetch_from_wiktionary(w, response, now)} :
                  /\ requests' = Append(requests, w)
                  /\ cache' = SetItem(cache, w, entry)
                  /\ disk' = [disk EXCEPT ![CANONICAL_CACHE_FILE] =
                                 save_json(@, SetItem(cache, w, entry), io)]
                  /\ call' = [op |-> "lookup", word |-> word, returned |-> entry,
                              printed |-> SaveMessages(io)]
    /\ now' = now + 1
    /\ UNCHANGED simVars

add_personal_definition(word, text, user_file) ==
    /\ now <= MaxCalls
    /\ \E io \in WriteOutcomes :
       \E data \in {load_json(disk[user_file], DefaultDict(user_file))} :
       \E entry \in {[text |-> Strip(text), tags |-> <<>>, created |-> now]} :
          /\ disk' = [disk EXCEPT
                         ![user_file] = save_json(@, AppendEntry(data, Lower(word), entry), io),
                         ![LAST_USER_FILE] = save_json(@, user_file, io)]
          /\ call' = [op |-> "add", word |-> word, text |-> text,
                      user_file |-> user_file,
                      printed |-> LoadMessages(disk[user_file]) \o SaveMessages(io)
                                  \o SaveMessages(io) \o <<"Definition added.">>]
    /\ now' = now + 1
    /\ UNCHANGED <<cache, requests>>
    /\ UNCHANGED simVars

LookupCanonical ==
    /\ \E word \in Words : lookup_canonical(word)
    /\ UNCHANGED replVars
AddPersonalDefinition ==
    /\ \E word \in Words, text \in Texts, user_file \in UserFiles :
          add_personal_definition(word, text, user_file)
    /\ UNCHANGED replVars

NextDict == LookupCanonical \/ AddPersonalDefinition
SpecDict == InitDict /\ [][NextDict]_vars

(***************************************************************************)
(* main: the REPL.  A file name is a sequence of parts ("dict_", a stem,   *)
(* "/", ".json"); its path is their concatenation.                         *)
(***************************************************************************)
\* glob.glob("dict_*.json"): the files of the working directory
GlobMatch(parts) ==
    /\ parts[1] = "dict_"
    /\ parts[Len(parts)] = ".json"
    /\ \A j \in 1..Len(parts) : parts[j] # "/"

\* the existing files that match the pattern and load as a dict with entries
load_shared_dictionaries(files) ==
    LET loads(parts) == /\ GlobMatch(parts)
                        /\ files[Join(parts)].kind = "json"
        found == SelectSeq(ReplNames, loads)
    IN  [j \in 1..Len(found) |->
            [path |-> Join(found[j]),
             user_id |-> files[Join(found[j])].data.user_id,
             entries |-> files[Join(found[j])].data.entries]]

\* sorted(key=created, reverse=True): stable, latest first
RECURSIVE InsertByCreated(_, _)
InsertByCreated(sorted, x) ==
    IF sorted = <<>> THEN <<x>>
    ELSE IF Head(sorted).created >= x.created
         THEN <<Head(sorted)>> \o InsertByCreated(Tail(sorted), x)
         ELSE <<x>> \o sorted
RECURSIVE SortByCreated(_, _)
SortByCreated(sorted, rest) ==
    IF rest = <<>> THEN sorted
    ELSE SortByCreated(InsertByCreated(sorted, Head(rest)), Tail(rest))

\* the entries of word.lower() in every loaded dictionary
RECURSIVE Overlays(_, _)
Overlays(w, dicts) ==
    IF dicts = <<>> THEN <<>>
    ELSE LET d == Head(dicts)
             entries == Get(d.entries, w, <<>>)
         IN  [j \in 1..Len(entries) |->
                 [user |-> d.user_id, text |-> entries[j].text,
                  tags |-> entries[j].tags, created |-> entries[j].created]]
             \o Overlays(w, Tail(dicts))
aggregate_overlays(word, dicts) == SortByCreated(<<>>, Overlays(Lower(word), dicts))

\* what the user may type at "> " and at "Word: "
ReplWords == {<<"a">>, <<"A", " ">>, <<"0">>}
QuitCommands == {<<":", "quit">>, <<":", "q">>, <<":", "exit">>, <<"0">>}
None == "None"

\* cache, dictionaries and last_user_file as main loads them
InitRepl ==
    /\ SimUnused
    /\ \E user \in {Missing, Json(OldDict), Unparsable(OldDict)},
          last \in {Missing, Json(Join(MeName))} :
          disk = [path \in ReplPaths |->
                     IF path = Join(MeName) THEN user
                     ELSE IF path = LAST_USER_FILE THEN last
                     ELSE Missing]
    /\ cache = load_json(disk[CANONICAL_CACHE_FILE], EmptyDict)
    /\ dictionaries = load_shared_dictionaries(disk)
    /\ last_user_file = load_json(disk[LAST_USER_FILE], None)
    /\ requests = <<>>
    /\ call = [op |-> "start"]
    /\ now = 1
    /\ shared = <<>>
    /\ session = {}

\* "> 0" (or :quit, :q, :exit): the loop ends
ReplQuit ==
    /\ call.op # "quit" /\ now <= MaxCalls
    /\ \E typed \in ReplWords : Lower(Strip(typed)) \in QuitCommands
    /\ call' = [op |-> "quit"]
    /\ now' = now + 1
    /\ UNCHANGED <<disk, cache, requests, replVars>>
    /\ UNCHANGED simVars

\* "> :add", the three prompts, add_personal_definition and the reload
ReplAdd ==
    /\ call.op # "quit"
    /\ \E typed \in ReplWords, text \in Texts, entered \in FileEntries :
       \E default \in {IF last_user_file = None THEN DefaultName
                        ELSE Parts(last_user_file)} :
          /\ Strip(typed) # <<>> /\ Strip(text) # <<>>
          /\ add_personal_definition(Strip(typed), Strip(text),
                                     Join(NormalizeFileName(entered, default)))
          /\ session' = session \cup {[word |-> Strip(typed), text |-> Strip(text)]}
    /\ dictionaries' = load_shared_dictionaries(disk')
    /\ UNCHANGED <<last_user_file, shared>>

\* "> word": the canonical meaning, then the additional meanings
ReplLookup ==
    /\ call.op # "quit"
    /\ \E typed \in ReplWords :
          /\ Strip(typed) # <<>>
          /\ Lower(Strip(typed)) \notin QuitCommands
          /\ lookup_canonical(Strip(typed))
          /\ shared' = aggregate_overlays(Strip(typed), dictionaries)
    /\ UNCHANGED <<dictionaries, last_user_file, session>>

NextRepl == ReplAdd \/ ReplLookup \/ ReplQuit
SpecRepl == InitRepl /\ [][NextRepl]_vars

(***************************************************************************)
(* The state machine of simulate.                                          *)
(***************************************************************************)
Pop == [capital |-> capital, tiers |-> tiers, employed |-> employed,
        unemp_months |-> unemp_months, state |-> state, sample_idx |-> sample_idx]

\* a seed left open: the generators seeded from it may yield any stream
AnySeed == 0 - 2
Generator(seed) == IF seed < 0 THEN open_rng ELSE default_rng(seed)

Zeros(n) == [j \in 0..(n - 1) |-> 0]
\* hist = np.zeros((months, len(bins) - 1))
ZeroRows(n, q) == [j \in 0..(n - 1) |-> [b \in 1..(Len(q.hist_bins) - 1) |-> 0]]

\* before the first chunk iteration: an empty slice
NoChunk ==
    LET none == [capital |-> <<>>, tiers |-> <<>>, employed |-> <<>>,
                 unemp_months |-> <<>>, state |-> <<>>, sample_idx |-> <<>>]
    IN  [pop |-> none, k |-> ChunkView(none, 0, 0, open_rng, 0), slices |-> <<>>,
         slot_ratio |-> [num |-> 0, den |-> 1]]

Call(n, q) ==
    /\ pc = "call"
    /\ N = n
    /\ p = q
    /\ capital = <<>> /\ tiers = <<>> /\ employed = <<>>
    /\ unemp_months = <<>> /\ state = <<>> /\ sample_idx = <<>>
    /\ rng = open_rng
    /\ m = 0 /\ start = 0
    /\ active_ct = <<>> /\ exited_ct = <<>> /\ unemp_ct = <<>> /\ emp_ct = <<>>
    /\ mean = <<>> /\ p10 = <<>> /\ p50 = <<>> /\ p90 = <<>> /\ hist = <<>>
    /\ final_slot_ratio = [num |-> 0, den |-> 1]
    /\ kernel = NoChunk
    /\ DictUnused

\* the calls explored: runs of at most MaxWork agent-months
Sizes == {nm \in (1..MaxN) \X (1..MaxMonths) : nm[1] * nm[2] <= MaxWork}
Calls(seeds) ==
    {[n |-> nm[1],
      q |-> [s EXCEPT !.seed = sd, !.months = nm[2], !.chunk_size = ch]] :
        nm \in Sizes, s \in Scenarios, sd \in seeds, ch \in 1..MaxChunk}

\* the scenario with shocks on one agent, the others on up to MaxN
Init == \E c \in {d \in Calls({AnySeed}) : d.n = 1 \/ d.q.shock_prob_monthly = 0} :
            Call(c.n, c.q)

\* simulate, lines 130-153: the population, the evolution generator, the series.
\* np.empty raises for a negative N, rng.choice for tier_probs that are no
\* distribution (the arrays are allocated by then), np.zeros for negative months.
InitializePopulation ==
    /\ pc = "call"
    /\ IF N < 0
       THEN /\ pc' = "error"
            /\ UNCHANGED <<capital, tiers, employed, unemp_months, state,
                           sample_idx, rng, active_ct, exited_ct, unemp_ct, emp_ct,
                           mean, p10, p50, p90, hist>>
       ELSE \E tape \in RandomRaw(Generator(p.seed), InitTapeLen(N, p)) :
            IF ~ValidDistribution(p.tier_probs)
            THEN \E g \in Garbage :
                   /\ capital' = [i \in 0..(N - 1) |->
                                     Min(Lognormal(p.capital_logn_mu, p.capital_logn_sigma,
                                                   tape[i + 1]),
                                         p.capital_cap_max)]
                   /\ tiers' = [i \in 0..(N - 1) |-> g]
                   /\ employed' = [i \in 0..(N - 1) |-> g]
                   /\ unemp_months' = [i \in 0..(N - 1) |-> g]
                   /\ state' = [i \in 0..(N - 1) |-> g]
                   /\ pc' = "error"
                   /\ UNCHANGED <<sample_idx, rng, active_ct, exited_ct, unemp_ct,
                                  emp_ct, mean, p10, p50, p90, hist>>
            ELSE \E pop \in {initialize_population(N, p, tape)} :
                   /\ capital' = pop.capital
                   /\ tiers' = pop.tiers
                   /\ employed' = pop.employed
                   /\ unemp_months' = pop.unemp_months
                   /\ state' = pop.state
                   /\ sample_idx' = pop.sample_idx
                   /\ rng' = Generator(p.seed + 1)
                   /\ IF p.months < 0
                      THEN /\ pc' = "error"
                           /\ UNCHANGED <<active_ct, exited_ct, unemp_ct, emp_ct,
                                          mean, p10, p50, p90, hist>>
                      ELSE /\ pc' = "month"
                           /\ hist' = ZeroRows(p.months, p)
                           /\ active_ct' = Zeros(p.months) /\ exited_ct' = Zeros(p.months)
                           /\ unemp_ct' = Zeros(p.months) /\ emp_ct' = Zeros(p.months)
                           /\ mean' = Zeros(p.months) /\ p10' = Zeros(p.months)
                           /\ p50' = Zeros(p.months) /\ p90' = Zeros(p.months)
    /\ UNCHANGED <<N, p, m, start, final_slot_ratio, kernel>>
    /\ UNCHANGED dictVars

\* one iteration of "for start in range(0, N, chunk)"
ProcessChunk ==
    /\ pc = "month" /\ m < p.months /\ start < N
    /\ \E k \in ProcessedChunk(Pop, N, p, m, start, rng, Garbage) :
       \E pop \in {WriteBack(Pop, k)} :
              /\ capital' = pop.capital
              /\ tiers' = pop.tiers
              /\ employed' = pop.employed
              /\ unemp_months' = pop.unemp_months
              /\ state' = pop.state
              /\ rng' = k.rng
              /\ kernel' = [pop |-> Pop, k |-> k,
                            slices |-> Append(IF start = 0 THEN <<>> ELSE kernel.slices,
                                              <<start, ChunkEnd(N, p, start)>>),
                            slot_ratio |-> SlotRatio(p, m)]
    /\ start' = ChunkEnd(N, p, start)
    /\ UNCHANGED <<pc, N, p, m, sample_idx, active_ct, exited_ct, unemp_ct, emp_ct,
                   mean, p10, p50, p90, hist, final_slot_ratio>>
    /\ UNCHANGED dictVars

\* the aggregates after the chunks of month m, then the next month.  For an
\* empty sample the mean is NaN and np.percentile either returns NaN or
\* raises, depending on the numpy version.
Aggregates ==
    /\ pc = "month" /\ m < p.months /\ start >= N
    /\ exited_ct' = [exited_ct EXCEPT ![m] = CountExited(Pop)]
    /\ active_ct' = [active_ct EXCEPT ![m] = CountActive(Pop)]
    /\ emp_ct' = [emp_ct EXCEPT ![m] = CountEmployed(Pop)]
    /\ unemp_ct' = [unemp_ct EXCEPT ![m] = CountUnemployed(Pop)]
    /\ \E samp \in {Sample(Pop)} :
          /\ mean' = [mean EXCEPT ![m] = SampleMean(samp)]
          /\ \/ /\ p10' = [p10 EXCEPT ![m] = Percentile(samp, 10)]
                /\ p50' = [p50 EXCEPT ![m] = Percentile(samp, 50)]
                /\ p90' = [p90 EXCEPT ![m] = Percentile(samp, 90)]
                /\ hist' = [hist EXCEPT ![m] = Histogram(samp, p.hist_bins)]
                /\ m' = m + 1
                /\ start' = 0
                /\ pc' = pc
             \/ /\ Len(samp) = 0
                /\ pc' = "error"
                /\ UNCHANGED <<p10, p50, p90, hist, m, start>>
    /\ UNCHANGED <<N, p, capital, tiers, employed, unemp_months, state, sample_idx,
                   rng, final_slot_ratio, kernel>>
    /\ UNCHANGED dictVars

\* after the month loop: final_slot_ratio and the result; 0.0 ** -1 raises
Return ==
    /\ pc = "month" /\ m >= p.months
    /\ IF RawSlotRatio(p, p.months - 1).den = 0
       THEN pc' = "error" /\ UNCHANGED final_slot_ratio
       ELSE pc' = "done" /\ final_slot_ratio' = RawSlotRatio(p, p.months - 1)
    /\ UNCHANGED <<N, p, capital, tiers, employed, unemp_months, state, sample_idx,
                   rng, m, start, active_ct, exited_ct, unemp_ct, emp_ct,
                   mean, p10, p50, p90, hist, kernel>>
    /\ UNCHANGED dictVars

Next == InitializePopulation \/ ProcessChunk \/ Aggregates \/ Return

Spec == Init /\ [][Next]_vars

\* runs from a known seed: both generators are determined
InitSeeded == \E c \in Calls(0..MaxSeed) : Call(c.n, c.q)
SpecSeeded == InitSeeded /\ [][Next]_vars

\* one agent that never finds a job, over more than 255 months
\* seeded runs on up to MaxAgents agents with every chunk size up to one more
\* than that: N a multiple of chunk_size or not, chunk_size above N or not
ChunkCalls ==
    {[n |-> n,
      q |-> [s EXCEPT !.seed = sd, !.months = mo, !.chunk_size = ch]] :
        n \in 1..MaxAgents, mo \in 1..MaxMonths, s \in {Turbulent, Labour},
        sd \in 0..MaxSeed, ch \in 1..(MaxAgents + 1)}
InitChunks == \E c \in ChunkCalls : Call(c.n, c.q)
SpecChunks == InitChunks /\ [][Next]_vars

\* runs of one agent for job_slot_ratio0 from 0 up to MaxSlots / Grid, every
\* decline from 0 to 1 and every non-zero hire_friction up to 1
SlotCalls ==
    {[n |-> nm[1],
      q |-> [Labour EXCEPT !.seed = AnySeed, !.months = nm[2], !.chunk_size = ch,
                           !.job_slot_ratio0 = r, !.job_slot_decline = d,
                           !.hire_friction = h]] :
        nm \in {sz \in Sizes : sz[1] = 1}, ch \in 1..MaxChunk, r \in 0..MaxSlots,
        d \in 0..Grid, h \in 1..Grid}
InitSlots == \E c \in SlotCalls : Call(c.n, c.q)
SpecSlots == InitSlots /\ [][Next]_vars

InitLong == Call(1, [LongUnemployment EXCEPT !.seed = AnySeed, !.months = LongMonths])
SpecLong == InitLong /\ [][Next]_vars

\* runs without jobs for every sample size up to MaxSample
InitSample ==
    \E c \in Calls({AnySeed}) : \E ss \in 1..MaxSample :
        /\ c.q = [NoEmployment EXCEPT !.seed = AnySeed, !.months = c.q.months,
                                      !.chunk_size = c.q.chunk_size]
        /\ Call(c.n, [c.q EXCEPT !.sample_size = ss])
SpecSample == InitSample /\ [][Next]_vars

\* calls with any arguments: N and months may be zero or negative, and
\* tier_probs may fail to sum to 1
AnyCalls ==
    {[n |-> n,
      q |-> [Labour EXCEPT !.seed = AnySeed, !.months = mo, !.chunk_size = ch,
                           !.tier_probs = tp]] :
        n \in (0 - 1)..MaxN, mo \in (0 - 1)..MaxMonths, ch \in 1..MaxChunk,
        tp \in {Labour.tier_probs, <<1, 0, 0>>}}
InitAnyCall == \E c \in AnyCalls : Call(c.n, c.q)
SpecAnyCall == InitAnyCall /\ [][Next]_vars

(***************************************************************************)
(* simulate as a function of its inputs, for a known seed: the result of   *)
(* the month loop and the chunk loop, with rev starting as zeros.          *)
(***************************************************************************)
RECURSIVE ChunkLoop(_, _, _, _, _, _)
ChunkLoop(pop, gen, n, q, mo, lo) ==
    IF lo >= n THEN [pop |-> pop, rng |-> gen]
    ELSE LET k == CHOOSE c \in ProcessedChunk(pop, n, q, mo, lo, gen, {0}) : TRUE
         IN  ChunkLoop(WriteBack(pop, k), k.rng, n, q, mo, ChunkEnd(n, q, lo))

RECURSIVE MonthLoop(_, _, _, _, _, _)
MonthLoop(pop, gen, n, q, mo, series) ==
    IF mo >= q.months THEN [pop |-> pop, rng |-> gen, series |-> series]
    ELSE LET r == ChunkLoop(pop, gen, n, q, mo, 0)
             samp == Sample(r.pop)
             s == [ active |-> [series.active EXCEPT ![mo] = CountActive(r.pop)],
                    exited |-> [series.exited EXCEPT ![mo] = CountExited(r.pop)],
                    employed |-> [series.employed EXCEPT ![mo] = CountEmployed(r.pop)],
                    unemployed |-> [series.unemployed EXCEPT ![mo] = CountUnemployed(r.pop)],
                    mean |-> [series.mean EXCEPT ![mo] = SampleMean(samp)],
                    p10 |-> [series.p10 EXCEPT ![mo] = Percentile(samp, 10)],
                    p50 |-> [series.p50 EXCEPT ![mo] = Percentile(samp, 50)],
                    p90 |-> [series.p90 EXCEPT ![mo] = Percentile(samp, 90)],
                    hist |-> [series.hist EXCEPT ![mo] = Histogram(samp, q.hist_bins)] ]
         IN  MonthLoop(r.pop, r.rng, n, q, mo + 1, s)

simulate(n, q) ==
    LET tape == LcgTape(default_rng(q.seed).x, InitTapeLen(n, q))
        pop == initialize_population(n, q, tape)
        z == Zeros(q.months)
    IN  MonthLoop(pop, default_rng(q.seed + 1), n, q, 0,
                  [active |-> z, exited |-> z, employed |-> z, unemployed |-> z,
                   mean |-> z, p10 |-> z, p50 |-> z, p90 |-> z,
                   hist |-> ZeroRows(q.months, q)])

\* what the run in the state machine has produced
Outcome ==
    [ pop |-> Pop, rng |-> rng,
      series |-> [active |-> active_ct, exited |-> exited_ct,
                  employed |-> emp_ct, unemployed |-> unemp_ct,
                  mean |-> mean, p10 |-> p10, p50 |-> p50, p90 |-> p90,
                  hist |-> hist] ]

(***************************************************************************)
(* Properties.                                                             *)
(***************************************************************************)
\* the agents the step from this state to the next passed through the kernel
ChunkStep == pc = "month" /\ start' > start
Processed == start..(start' - 1)
Agents == DOMAIN state
Recorded == IF pc = "call" THEN {} ELSE 0..(m - 1)

\* C1: for every recorded month mo, active[mo] + exited[mo] = N and
\* employed[mo] + unemployed[mo] = active[mo].
C1_CountsAddUp ==
    \A mo \in Recorded :
        /\ active_ct[mo] + exited_ct[mo] = N
        /\ emp_ct[mo] + unemp_ct[mo] = active_ct[mo]

\* a recorded month with an exited agent beside an active one
C1_Witness ==
    \E mo \in Recorded : exited_ct[mo] >= 1 /\ emp_ct[mo] + unemp_ct[mo] >= 1

\* C2: an agent that is EXITED stays EXITED in every later state, and the
\* exited series never decreases from one recorded month to the next.
C2_ExitedAbsorbing ==
    [][ /\ \A i \in Agents : state[i] = EXITED => state'[i] = EXITED
        /\ \A mo \in 1..(m' - 1) : exited_ct'[mo - 1] <= exited_ct'[mo] ]_vars

\* a month was simulated after the month in which an agent exited
C2_Witness == pc = "done" /\ m >= 2 /\ exited_ct[0] >= 1

\* C3: no step changes any field of an agent that is EXITED.
C3_ExitedFrozen ==
    [][ \A i \in Agents :
           state[i] = EXITED =>
              /\ capital'[i] = capital[i]
              /\ tiers'[i] = tiers[i]
              /\ employed'[i] = employed[i]
              /\ unemp_months'[i] = unemp_months[i]
              /\ state'[i] = state[i] ]_vars

\* all chunks of a month were processed after a month that ended with an
\* exited agent
C3_Witness ==
    /\ pc = "month" /\ m >= 1 /\ m < p.months /\ start >= N
    /\ exited_ct[m - 1] >= 1

\* the ending arrays and the series, without the generator
Observable(o) == [pop |-> o.pop, series |-> o.series]

\* C4: the ending arrays and the time series of a run do not depend on the
\* chunk size: they equal those of the run with one chunk covering the whole
\* population.
C4_ChunkingTransparent ==
    pc = "done" =>
        Observable(Outcome) = Observable(simulate(N, [p EXCEPT !.chunk_size = N]))

\* C5: a run from a known seed is a function of N and params: it consumes
\* the draws, and ends with the arrays and series, of simulate(N, p),
\* whatever np.empty left in rev.
C5_Deterministic == pc = "done" => Outcome = simulate(N, p)

\* a finished run of two months in which an agent exited in the first
C5_Witness == pc = "done" /\ m >= 2 /\ exited_ct[0] >= 1 /\ rng.known

Saturated(um) == Min(um + 1, 255)
C7_UnempSaturates ==
    [][ ChunkStep =>
          \A i \in Processed :
              (state[i] # EXITED /\ employed'[i] = 0) =>
                  IF state'[i] # EXITED
                  THEN unemp_months'[i] = Saturated(unemp_months[i])
                  ELSE unemp_months'[i] \in {Saturated(Saturated(unemp_months[i])),
                                             Saturated(0)} ]_vars

\* C8: an agent that is active when its chunk is processed and does not exit
\* ends the month with unemployment_months 0 if its final employment flag is
\* 1, and with its previous value plus one, saturating, if the flag is 0.
C8_UnempFollowsFlag ==
    [][ ChunkStep =>
          \A i \in Processed :
              (state[i] # EXITED /\ state'[i] # EXITED) =>
                  unemp_months'[i] = IF employed'[i] = 1 THEN 0
                                     ELSE Saturated(unemp_months[i]) ]_vars

\* C9: no step after initialize_population changes tiers, and every tier is
\* 0, 1 or 2.
C9_TierImmutable ==
    [][ /\ pc # "call" => tiers' = tiers
        /\ \A i \in DOMAIN tiers' : tiers'[i] \in {0, 1, 2} ]_vars

\* a finished run over two agents of different tiers
C9_Witness ==
    /\ pc = "done" /\ m >= 2
    /\ \E i, j \in Agents : tiers[i] # tiers[j]

\* C10: with shock, separation and both exit probabilities 0, in a month
\* whose effective job-slot ratio is 1 every agent of a processed chunk ends
\* employed with unemployment_months 0; in a month whose ratio is 0 every
\* agent ends unemployed and not exited, unemployment_months is one more than
\* before (below the uint8 ceiling), and its capital changed by one
\* unemployed-cashflow delta of its tier.
NoRandomEvents(q) ==
    /\ q.shock_prob_monthly = 0
    /\ q.separation_prob_monthly = 0
    /\ q.exit_prob_monthly_if_insolvent_unemployed = 0
    /\ q.exit_prob_monthly_if_insolvent_only = 0
UnemployedDeltas(q, t) ==
    {Normal(q.rev_unemployed_mu[t + 1], q.rev_sigma[t + 1], r) : r \in Raw}
C10_QuietScenarios ==
    [][ (ChunkStep /\ NoRandomEvents(p)) =>
          /\ (SlotRatio(p, m).num = SlotRatio(p, m).den =>
                \A i \in Processed :
                    /\ state'[i] # EXITED
                    /\ employed'[i] = 1
                    /\ unemp_months'[i] = 0)
          /\ (SlotRatio(p, m).num = 0 =>
                \A i \in Processed :
                    /\ state'[i] # EXITED
                    /\ employed'[i] = 0
                    /\ (unemp_months[i] < 255 =>
                          unemp_months'[i] = unemp_months[i] + 1)
                    /\ capital'[i] - capital[i] \in UnemployedDeltas(p, tiers[i])) ]_vars

\* a finished month without jobs: agents of both tiers are unemployed for
\* one month, one of them having drawn a cashflow above its tier's mean
C10_Witness ==
    /\ pc = "month" /\ m = 1 /\ NoRandomEvents(p) /\ p.job_slot_ratio0 = 0
    /\ \A i \in Agents : unemp_months[i] = 1 /\ employed[i] = 0
    /\ \E i, j \in Agents : tiers[i] # tiers[j]

\* C11: when insolvent_thresh < precarious_thresh, in every state from the
\* end of initialization on, every agent that is not EXITED is STABLE iff its
\* capital >= precarious_thresh, PRECARIOUS iff insolvent_thresh < capital <
\* precarious_thresh, and INSOLVENT iff capital <= insolvent_thresh.
C11_StateFromCapital ==
    p.insolvent_thresh < p.precarious_thresh =>
        \A i \in Agents :
            state[i] # EXITED =>
                /\ state[i] = STABLE <=> capital[i] >= p.precarious_thresh
                /\ state[i] = PRECARIOUS <=>
                       (p.insolvent_thresh < capital[i] /\ capital[i] < p.precarious_thresh)
                /\ state[i] = INSOLVENT <=> capital[i] <= p.insolvent_thresh

\* the chunk iteration just executed took an INSOLVENT agent, whose capital
\* recovered, to STABLE
C11_Witness ==
    \E i \in kernel.k.sl :
        /\ kernel.pop.state[i] = INSOLVENT
        /\ state[i] = STABLE
        /\ capital[i] > kernel.pop.capital[i]

\* C12: a call with a non-positive N, non-positive months or tier
\* probabilities that are no distribution is rejected up front: it is either
\* not yet executed or has ended in an error; it never enters the month loop
\* and never returns a result.
InvalidParameters(n, q) ==
    n <= 0 \/ q.months <= 0 \/ ~ValidDistribution(q.tier_probs)
C12_InvalidRejected ==
    InvalidParameters(N, p) => pc \in {"call", "error"}

\* C13: sample_idx holds min(sample_size, N) pairwise distinct indices in
\* [0, N); no step after initialize_population changes it; and the mean,
\* the percentiles and the histogram recorded for a month are those of the
\* capital at exactly these indices.
SampledCapital == [j \in 1..Len(sample_idx) |-> capital[sample_idx[j]]]
C13_SampleFixed ==
    [][ /\ pc # "call" => sample_idx' = sample_idx
        /\ pc' \in {"month", "done"} =>
              /\ Len(sample_idx') = Min(p.sample_size, N)
              /\ \A j \in 1..Len(sample_idx') : sample_idx'[j] \in 0..(N - 1)
              /\ \A i, j \in 1..Len(sample_idx') :
                     i # j => sample_idx'[i] # sample_idx'[j]
        /\ m' = m + 1 =>
              /\ mean'[m] = [num |-> SumSeq(SampledCapital), den |-> Len(sample_idx)]
              /\ p10'[m] = Percentile(SampledCapital, 10)
              /\ p50'[m] = Percentile(SampledCapital, 50)
              /\ p90'[m] = Percentile(SampledCapital, 90)
              /\ \A b \in 1..(Len(p.hist_bins) - 1) :
                     hist'[m][b] =
                        Cardinality({j \in 1..Len(sample_idx) :
                                        InBin(capital[sample_idx[j]], p.hist_bins, b)}) ]_vars

\* a finished run of two months whose sample is the whole population of two
\* agents, fewer than sample_size, drawn in descending order
C13_Witness ==
    /\ pc = "done" /\ m >= 2
    /\ N < p.sample_size
    /\ sample_idx = <<1, 0>>
    /\ capital[0] # capital[1]

\* C14: the bin counts of the histogram recorded for a month sum to the
\* sample size minus the number of sampled capital values below the first
\* bin edge or above the last one.  (Stated where the capital is still the
\* one the month's statistics were taken from: before the next chunk runs.)
OutOfRange(v, bins) == v < bins[1] \/ v > bins[Len(bins)]
C14_HistogramTotal ==
    (pc \in {"month", "done"} /\ m >= 1 /\ start = 0) =>
        SumSeq(hist[m - 1]) =
            Len(sample_idx)
            - Cardinality({j \in 1..Len(sample_idx) :
                              OutOfRange(capital[sample_idx[j]], p.hist_bins)})

\* a month was recorded whose sampled capital lies above the last bin edge
\* and is in no bin, after a month whose sampled capital lay on the last edge
\* and was counted in the last bin
C14_Witness ==
    /\ pc \in {"month", "done"} /\ m >= 2 /\ start = 0
    /\ \E j \in 1..Len(sample_idx) :
          capital[sample_idx[j]] > p.hist_bins[Len(p.hist_bins)]
    /\ SumSeq(hist[m - 1]) = 0
    /\ hist[m - 2][Len(p.hist_bins) - 1] = 1

\* C15: after add_personal_definition(word, text, user_file) has written
\* the file (no write was reported as failed), every entry the file held
\* before the call is still in it, unchanged and in the same place, and the
\* list of word.lower() ends with the new entry, whatever the file held
\* before.
StoredEntries(content) ==
    IF content.kind \in {"json", "unparsable"} THEN content.data.entries ELSE EmptyDict
IsPrefix(a, b) == Len(a) <= Len(b) /\ SubSeq(b, 1, Len(a)) = a
Printed(c, message) == \E j \in 1..Len(c.printed) : c.printed[j] = message
C15_AddNonDestructive ==
    [][ (call'.op = "add" /\ ~Printed(call', "Error saving")) =>
          LET before == StoredEntries(disk[call'.user_file])
              after == StoredEntries(disk'[call'.user_file])
              key == Lower(call'.word)
          IN  /\ \A w \in DOMAIN before :
                    w \in DOMAIN after /\ IsPrefix(before[w], after[w])
              /\ key \in DOMAIN after
              /\ Len(after[key]) = Len(Get(before, key, <<>>)) + 1
              /\ after[key][Len(after[key])].text = Strip(call'.text) ]_vars

\* C16: within a session (one cache), every lookup_canonical(word) whose
\* normalized word (lower-cased, stripped) is already in the cache returns
\* the stored entry, fetches nothing and changes no stored entry, also when
\* that entry is a lookup-error or no-definitions placeholder; so the
\* Wiktionary fetch is performed at most once per normalized word.
IsPlaceholder(entry) ==
    entry.definitions[1].text \in {<<"[Lookup error]">>, <<"[No English definitions found]">>}
C16_FetchedOnce ==
    [][ call'.op = "lookup" =>
          LET w == Strip(Lower(call'.word))
          IN  /\ w \in DOMAIN cache =>
                    /\ requests' = requests
                    /\ call'.returned = cache[w]
              /\ \A v \in DOMAIN cache : v \in DOMAIN cache' /\ cache'[v] = cache[v]
              /\ w \in DOMAIN cache' /\ call'.returned = cache'[w]
              /\ \A j, k \in 1..Len(requests') :
                    Strip(Lower(requests'[j])) = Strip(Lower(requests'[k])) => j = k ]_vars
\* "a" was fetched once and the fetch failed; a later lookup of "A " returned
\* the stored placeholder without a second fetch
C16_Witness ==
    /\ call.op = "lookup" /\ call.word = <<"A", " ">>
    /\ requests = << <<"a">> >>
    /\ call.returned = cache[<<"a">>]
    /\ IsPlaceholder(call.returned)
    /\ call.returned.fetched + 1 < now

\* C17: every agent that separated in the chunk iteration just executed has
\* employed = 0 whatever the employment draw gave it, and its capital is the
\* capital it had before, less its shock cost, less separation_income_hit,
\* plus its cashflow.
C17_SeparationOverrides ==
    \A i \in kernel.k.sl :
        kernel.k.separated[i] =>
            /\ kernel.pop.state[i] # EXITED
            /\ employed[i] = 0
            /\ capital[i] = kernel.pop.capital[i] - kernel.k.costs[i]
                              - p.separation_income_hit + kernel.k.rev[i]
\* an agent was hired by the employment draw, suffered a shock and separated
\* in the same month
C17_Witness ==
    \E i \in kernel.k.sl :
        /\ kernel.k.separated[i]
        /\ kernel.k.hired[i] = 1
        /\ kernel.k.shocked[i] /\ kernel.k.costs[i] > 0
        /\ employed[i] = 0

\* C18: an agent that became EXITED in the chunk iteration just executed
\* was not EXITED before it (it was active) and its capital after the
\* cashflow is at most insolvent_thresh, so it was INSOLVENT after the
\* reclassification; an agent with more capital did not exit; and when both
\* exit probabilities are 0 no agent is ever EXITED.
BothExitProbabilitiesZero(q) ==
    /\ q.exit_prob_monthly_if_insolvent_unemployed = 0
    /\ q.exit_prob_monthly_if_insolvent_only = 0
C18_ExitOnlyInsolvent ==
    /\ \A i \in kernel.k.sl :
          /\ kernel.k.exiting[i] <=>
                 (state[i] = EXITED /\ kernel.pop.state[i] # EXITED)
          /\ kernel.k.exiting[i] =>
                 /\ kernel.k.active[i]
                 /\ capital[i] <= p.insolvent_thresh
          /\ (kernel.k.active[i] /\ capital[i] > p.insolvent_thresh) =>
                 state[i] # EXITED
    /\ (pc \in {"month", "done"} /\ BothExitProbabilitiesZero(p)) =>
          \A i \in Agents : state[i] # EXITED
\* an agent that was STABLE became insolvent and exited in the same month
C18_Witness ==
    \E i \in kernel.k.sl :
        /\ kernel.pop.state[i] = STABLE
        /\ kernel.k.exiting[i]
        /\ state[i] = EXITED
        /\ capital[i] <= p.insolvent_thresh

\* C19: in the chunk iteration just executed, the exit risk of every active
\* agent that is INSOLVENT after the reclassification is the escalated
\* probability if its unemployment_months, as updated by the unemployment
\* step of this month, is >= unemp_exit_boost_after and its employment flag
\* of this month is 0, and the base probability otherwise; the exit risk of
\* every other agent is 0.
\* the employment flag of the month, before the exit rule
MonthEmployed(i) == IF kernel.k.separated[i] THEN 0 ELSE kernel.k.hired[i]
\* unemployment_months after the unemployment step of the month
MonthUnemp(i) ==
    IF MonthEmployed(i) = 0 THEN IncrementUnemp(kernel.pop.unemp_months[i]) ELSE 0
ActiveInsolvent(i) ==
    /\ kernel.k.active[i]
    /\ kernel.pop.state[i] # EXITED
    /\ capital[i] <= p.insolvent_thresh
C19_ExitRisk ==
    p.insolvent_thresh < p.precarious_thresh =>
        \A i \in kernel.k.sl :
            kernel.k.risk[i] =
                IF ~ActiveInsolvent(i) THEN 0
                ELSE IF MonthUnemp(i) >= p.unemp_exit_boost_after /\ MonthEmployed(i) = 0
                     THEN p.exit_prob_monthly_if_insolvent_unemployed
                     ELSE p.exit_prob_monthly_if_insolvent_only
\* one insolvent agent has just reached unemp_exit_boost_after months of
\* unemployment and carries the escalated risk
C19_Witness ==
    /\ p.exit_prob_monthly_if_insolvent_unemployed
           # p.exit_prob_monthly_if_insolvent_only
    /\ \E i \in kernel.k.sl :
          /\ ActiveInsolvent(i)
          /\ MonthEmployed(i) = 0
          /\ MonthUnemp(i) = p.unemp_exit_boost_after
          /\ kernel.k.risk[i] = p.exit_prob_monthly_if_insolvent_unemployed

\* C20: every EXITED agent has employed = 0, and an agent that exited in the
\* chunk iteration just executed has employed = 0 and an unemployment_months
\* one above (saturating at 255) the value the unemployment step of the
\* month gave it.
ExitedUnemployed == \A i \in Agents : state[i] = EXITED => employed[i] = 0
C20_ExitedUnemployed ==
    /\ ExitedUnemployed
    /\ \A i \in kernel.k.sl :
          kernel.k.exiting[i] =>
              /\ employed[i] = 0
              /\ unemp_months[i] = Saturated(MonthUnemp(i))

\* C21: the slices processed so far in a month start at 0, are non-empty,
\* each starts where the one before ended and ends chunk_size further or at
\* N, and once the chunk loop of the month is over they end at N: they
\* partition [0, N) in ascending order, so every agent was passed through
\* the kernel exactly once.  The chunk iteration just executed worked on the
\* last slice and left every array element outside it as it was.
TimesProcessed(i) ==
    Cardinality({j \in 1..Len(kernel.slices) :
                    kernel.slices[j][1] <= i /\ i < kernel.slices[j][2]})
LastSlice == kernel.slices[Len(kernel.slices)]
C21_ChunksPartition ==
    LET s == kernel.slices
    IN  /\ \A j \in 1..Len(s) :
              /\ s[j][1] = IF j = 1 THEN 0 ELSE s[j - 1][2]
              /\ s[j][1] < s[j][2]
              /\ s[j][2] = Min(s[j][1] + p.chunk_size, N)
        /\ (pc = "month" /\ start > 0) =>
              /\ Len(s) > 0 /\ LastSlice[2] = start
              /\ \A i \in Agents : TimesProcessed(i) = IF i < start THEN 1 ELSE 0
        /\ (pc \in {"month", "done"} /\ N >= 1 /\ (start >= N \/ m > 0)) =>
              /\ Len(s) > 0
              /\ start = 0 => (LastSlice[2] = N /\ \A i \in Agents : TimesProcessed(i) = 1)
        /\ Len(s) > 0 =>
              /\ kernel.k.sl = LastSlice[1]..(LastSlice[2] - 1)
              /\ \A i \in Agents \ kernel.k.sl :
                    /\ capital[i] = kernel.pop.capital[i]
                    /\ tiers[i] = kernel.pop.tiers[i]
                    /\ employed[i] = kernel.pop.employed[i]
                    /\ unemp_months[i] = kernel.pop.unemp_months[i]
                    /\ state[i] = kernel.pop.state[i]
\* three agents in chunks of two: the second, shorter chunk has just changed
\* agent 2 while agent 0, employed by the first chunk, kept its flag
C21_Witness ==
    /\ pc = "month" /\ N = 3 /\ p.chunk_size = 2 /\ start = 3
    /\ kernel.slices = << <<0, 2>>, <<2, 3>> >>
    /\ employed[0] = 1
    /\ capital[2] # kernel.pop.capital[2]

\* C22: the ratio the kernel used in every chunk iteration lies in [0, 1],
\* and the final_effective_job_slot_ratio of the result equals the ratio the
\* kernel used in the last simulated month.
SameFraction(f, g) == f.num * g.den = g.num * f.den
C22_FinalSlotRatio ==
    /\ kernel.slot_ratio.den > 0
    /\ 0 <= kernel.slot_ratio.num /\ kernel.slot_ratio.num <= kernel.slot_ratio.den
    /\ (pc = "done" /\ N >= 1 /\ p.months >= 1) =>
          /\ SameFraction(kernel.slot_ratio, SlotRatio(p, p.months - 1))
          /\ SameFraction(final_slot_ratio, kernel.slot_ratio)

\* C23: in a session of the REPL, when an :add has shown "Definition
\* added." the file it named holds the definition as the last entry of the
\* word, and every lookup of a word lists, among the additional meanings,
\* every text that an :add of this session confirmed for that word.
Persisted(c) ==
    LET content == disk[c.user_file]
        key == Lower(c.word)
    IN  /\ content.kind = "json"
        /\ key \in DOMAIN content.data.entries
        /\ content.data.entries[key][Len(content.data.entries[key])].text = Strip(c.text)
Listed(text) == \E j \in 1..Len(shared) : shared[j].text = text
C23_AddThenLookup ==
    /\ (call.op = "add" /\ Printed(call, "Definition added.")) => Persisted(call)
    /\ call.op = "lookup" =>
          \A a \in session :
              Lower(Strip(a.word)) = Lower(Strip(call.word)) => Listed(Strip(a.text))

====
